---------------------------- MODULE Spec2Model ----------------------------
(***************************************************************************)
(* A model of the interpreter orchestration loop of revm                   *)
(* (crates/interpreter/src/interpreter.rs): Interpreter::new, step, run,   *)
(* run_inspect and return_value, together with the collaborators the loop  *)
(* calls into (the instruction dispatcher `eval`, the Host inspection      *)
(* hooks, Gas, Stack, SharedMemory), which live outside interpreter.rs and *)
(* are modelled from their documented interfaces.                          *)
(*                                                                         *)
(* One call frame is modelled.  The instruction pointer is an address: the *)
(* bytecode is a sequence of opcode bytes, written by their mnemonics,     *)
(* that lies at contract.bytecode.as_ptr().                                *)
(***************************************************************************)
EXTENDS Integers, Sequences, FiniteSets, TLC

(***************************************************************************)
(* Bounds of the model.                                                    *)
(***************************************************************************)
\* longest logical program (before padding) that Init enumerates
MaxLen == 2
\* largest gas limit a frame is constructed with
MaxGas == 5
\* driver calls (run / run_inspect / return_value) made on one interpreter
MaxCalls == 3
\* longest region of Shared Memory a frame holds when return_value is
\* examined on its own
MaxMem == 2
\* width of usize in the model, in bits (usize::MAX == 2^UsizeBits - 1)
UsizeBits == 8
\* address at which the allocator has placed the contract's bytecode
BaseAddr == 4

USIZE_MAX == 2 ^ UsizeBits - 1

(***************************************************************************)
(* InstructionResult: Continue and the terminal signals.                   *)
(***************************************************************************)
Continue == "Continue"

NormalStop == {"Stop"}
ReturnSignals == {"Return"}
RevertSignals == {"Revert"}
FatalSignals == {"OutOfGas", "InvalidJump", "InvalidOpcode", "StackUnderflow",
                 "StaticCallViolation"}
Signals == {Continue} \cup NormalStop \cup ReturnSignals \cup RevertSignals
             \cup FatalSignals

\* the signals an inspection hook is observed to return
HookSignals == {Continue, "Stop", "OutOfGas"}

(***************************************************************************)
(* Bytecode.  The opcode bytes the dispatcher distinguishes.               *)
(***************************************************************************)
PushOps == {"PUSH0", "PUSH1", "PUSH2"}
CoreOps == {"STOP", "JUMPDEST", "JUMP", "RETURN", "INVALID", "PUSH0"}
Opcodes == CoreOps \cup PushOps \cup {"MSTORE8", "REVERT", "SSTORE"}

PushVal(op) == CASE op = "PUSH0" -> 0
                 [] op = "PUSH1" -> 1
                 [] op = "PUSH2" -> 2

RECURSIVE SeqsUpTo(_, _)
SeqsUpTo(S, n) ==
    IF n = 0 THEN {<<>>}
    ELSE LET shorter == SeqsUpTo(S, n - 1)
         IN  shorter \cup {Append(s, x) : s \in shorter, x \in S}

\* the analysis pass: the logical program followed by a halting opcode
Pad(prog) == Append(prog, "STOP")

\* longer logical programs, beyond the enumeration, that touch memory,
\* revert, loop, and mutate state
ExtraPrograms ==
    { <<"PUSH2", "PUSH1", "MSTORE8", "PUSH2", "PUSH0", "RETURN">>,
      <<"PUSH1", "PUSH1", "MSTORE8", "PUSH1", "PUSH1", "REVERT">>,
      <<"PUSH1", "PUSH0", "REVERT">>,
      <<"PUSH1", "PUSH0", "RETURN">>,
      <<"PUSH2", "JUMP", "JUMPDEST">>,
      <<"SSTORE", "PUSH1", "PUSH0", "RETURN">>,
      <<"JUMPDEST", "PUSH0", "JUMP">>,
      <<"PUSH2", "JUMP", "JUMPDEST", "PUSH2", "PUSH0", "RETURN">> }

Programs == {Pad(p) : p \in SeqsUpTo(CoreOps, MaxLen) \cup ExtraPrograms}

GasLimits == {0, 1, MaxGas}

(***************************************************************************)
(* Gas (the gas meter of one frame).                                       *)
(***************************************************************************)
GasNew(limit) == [limit |-> limit, remaining |-> limit]

\* record_cost: FALSE and no change when the budget does not cover `cost`
GasCovers(g, cost) == g.remaining >= cost

GasCharge(g, cost) == [g EXCEPT !.remaining = @ - cost]

(***************************************************************************)
(* Stack.                                                                  *)
(***************************************************************************)
StackNew == <<>>

StackPush(s, v) == Append(s, v)

StackTop(s, n) == s[Len(s) - n]

StackDrop(s, n) == SubSeq(s, 1, Len(s) - n)

(***************************************************************************)
(* SharedMemory: one buffer for the call tree; the current frame's region  *)
(* starts at `base` (its entry point) and reaches to the end of `data`.    *)
(* Offsets handed to it are relative to the current frame's region.        *)
(***************************************************************************)
\* what the parent frames have left in Shared Memory when the frame starts
ParentData == {<<>>, <<2, 1>>}

\* new_context_memory on the parents' buffer: the frame's region is empty
ShmNewContext(parent) == [data |-> parent, base |-> Len(parent)]

ShmLen(m) == Len(m.data) - m.base

\* the collaborator validates offsets against the current length
ShmInBounds(m, offset, size) == offset + size <= ShmLen(m)

ShmGetSlice(m, offset, size) ==
    SubSeq(m.data, m.base + offset + 1, m.base + offset + size)

ShmResize(m, newLen) ==
    IF newLen <= ShmLen(m) THEN m
    ELSE [m EXCEPT !.data = @ \o [k \in 1 .. (newLen - ShmLen(m)) |-> 0]]

ShmSetByte(m, offset, v) == [m EXCEPT !.data[m.base + offset + 1] = v]

\* free the current frame's region: the high-water mark goes back to the
\* frame's entry point
ShmFreeContextMemory(m) == [m EXCEPT !.data = SubSeq(@, 1, m.base)]

(***************************************************************************)
(* The handles to SharedMemory instances (Rc<RefCell<SharedMemory>>).      *)
(***************************************************************************)
TreeMemory == "tree"
OtherMemory == "other"
Handles == {TreeMemory, OtherMemory}

(***************************************************************************)
(* Interpreter::new                                                        *)
(***************************************************************************)
RangeDefault == [start |-> 0, end |-> 0]

\* `contract.bytecode.as_ptr()`: the address of the first opcode byte
BytecodePtr(contract) == BaseAddr

\* mutant: the frame gets a memory of its own instead of the shared one
New_OwnMemory(contract, gas_limit, is_static, shared_memory) ==
    [ instruction_pointer |-> BytecodePtr(contract),
      return_range        |-> RangeDefault,
      stack               |-> StackNew,
      shared_memory       |-> OtherMemory,
      return_data_buffer  |-> <<>>,
      contract            |-> contract,
      instruction_result  |-> Continue,
      is_static           |-> is_static,
      gas                 |-> GasNew(gas_limit) ]

New(contract, gas_limit, is_static, shared_memory) ==
    [ instruction_pointer |-> BytecodePtr(contract),
      return_range        |-> RangeDefault,
      stack               |-> StackNew,
      shared_memory       |-> shared_memory,
      return_data_buffer  |-> <<>>,
      contract            |-> contract,
      instruction_result  |-> Continue,
      is_static           |-> is_static,
      gas                 |-> GasNew(gas_limit) ]

CodeLen(i) == Len(i.contract)

\* mutant: the pointer itself is handed out, not its offset
ProgramCounter_Address(i) == i.instruction_pointer

\* program_counter(): the pointer's offset from the start of the bytecode,
\* `instruction_pointer.offset_from(contract.bytecode.as_ptr())`
ProgramCounter(i) == i.instruction_pointer - BytecodePtr(i.contract)

\* the addresses of the bytecode allocation, and the byte one of them holds
InAllocation(i, ptr) ==
    ptr >= BytecodePtr(i.contract) /\ ptr < BytecodePtr(i.contract) + CodeLen(i)

Deref(i, ptr) == i.contract[ptr - BytecodePtr(i.contract) + 1]

\* current_opcode(): `*self.instruction_pointer`; a read outside the
\* bytecode allocation may yield any byte
CurrentOpcode(i) ==
    IF InAllocation(i, i.instruction_pointer)
    THEN {Deref(i, i.instruction_pointer)}
    ELSE Opcodes

\* the byte at `offset` of the bytecode, when it lies inside it
ByteAt(i, offset) == i.contract[offset + 1]

InBytecode(i, offset) == offset >= 0 /\ offset < CodeLen(i)

(***************************************************************************)
(* The instruction dispatcher, eval(opcode, interpreter, host).            *)
(* Its result: the interpreter and its Shared Memory after the opcode.     *)
(***************************************************************************)
Halt(i, m, signal) == [itp |-> [i EXCEPT !.instruction_result = signal], mem |-> m]

Proceed(i, m) == [itp |-> i, mem |-> m]

IsValidJump(i, dest) == InBytecode(i, dest) /\ ByteAt(i, dest) = "JUMPDEST"

OpCost(op) == IF op \in {"STOP", "INVALID", "RETURN", "REVERT"} THEN 0 ELSE 1

OpPops(op) == CASE op \in {"MSTORE8", "RETURN", "REVERT"} -> 2
                [] op = "JUMP" -> 1
                [] OTHER -> 0

EvalReturn(i, m, signal) ==
    LET offset == StackTop(i.stack, 0)
        len    == StackTop(i.stack, 1)
        popped == [i EXCEPT !.stack = StackDrop(@, 2)]
    IN  IF len = 0
        THEN Halt([popped EXCEPT !.return_range =
                      [start |-> USIZE_MAX, end |-> USIZE_MAX]], m, signal)
        ELSE Halt([popped EXCEPT !.return_range =
                      [start |-> offset, end |-> offset + len]],
                  ShmResize(m, offset + len), signal)

EvalCharged(op, i, m) ==
    CASE op = "STOP" -> Halt(i, m, "Stop")
      [] op = "INVALID" -> Halt(i, m, "InvalidOpcode")
      [] op = "JUMPDEST" -> Proceed(i, m)
      [] op = "SSTORE" -> Proceed(i, m)
      [] op \in PushOps ->
            Proceed([i EXCEPT !.stack = StackPush(@, PushVal(op))], m)
      [] op = "JUMP" ->
            LET dest == StackTop(i.stack, 0)
                popped == [i EXCEPT !.stack = StackDrop(@, 1)]
            IN  IF IsValidJump(i, dest)
                THEN Proceed([popped EXCEPT !.instruction_pointer =
                                 BytecodePtr(i.contract) + dest], m)
                ELSE Halt(popped, m, "InvalidJump")
      [] op = "MSTORE8" ->
            LET offset == StackTop(i.stack, 0)
                value  == StackTop(i.stack, 1)
            IN  Proceed([i EXCEPT !.stack = StackDrop(@, 2)],
                        ShmSetByte(ShmResize(m, offset + 1), offset, value))
      [] op = "RETURN" -> EvalReturn(i, m, "Return")
      [] op = "REVERT" -> EvalReturn(i, m, "Revert")

Eval(op, i, m) ==
    IF op = "SSTORE" /\ i.is_static THEN Halt(i, m, "StaticCallViolation")
    ELSE IF ~GasCovers(i.gas, OpCost(op)) THEN Halt(i, m, "OutOfGas")
    ELSE IF Len(i.stack) < OpPops(op) THEN Halt(i, m, "StackUnderflow")
    ELSE EvalCharged(op, [i EXCEPT !.gas = GasCharge(@, OpCost(op))], m)

(***************************************************************************)
(* Interpreter::step                                                       *)
(***************************************************************************)
\* `*self.instruction_pointer`: the byte under the pointer; a read outside
\* the bytecode allocation may yield any byte
Fetch(i) ==
    IF InAllocation(i, i.instruction_pointer)
    THEN {Deref(i, i.instruction_pointer)}
    ELSE Opcodes

\* mutant: the pointer skips a byte
Advance_ByTwo(i) == [i EXCEPT !.instruction_pointer = @ + 2]

\* `self.instruction_pointer.offset(1)`
Advance(i) == [i EXCEPT !.instruction_pointer = @ + 1]

\* mutant: the opcode is dispatched first, the pointer advanced afterwards
StepWith_DispatchFirst(opcode, i, m) ==
    LET r == Eval(opcode, i, m)
    IN  [itp |-> Advance(r.itp), mem |-> r.mem,
         saw |-> ProgramCounter(i), sig |-> r.itp.instruction_result]

\* mutant: step itself reports an exhausted gas budget after the dispatch
StepWith_ChecksGas(opcode, i, m) ==
    LET r == Eval(opcode, Advance(i), m)
        spent == r.itp.instruction_result = Continue /\ r.itp.gas.remaining = 0
    IN  [itp |-> IF spent THEN [r.itp EXCEPT !.instruction_result = "OutOfGas"]
                 ELSE r.itp,
         mem |-> r.mem,
         saw |-> ProgramCounter(Advance(i)), sig |-> r.itp.instruction_result]

\* the pointer is advanced, then the opcode is dispatched; `saw` is the
\* program counter the dispatcher is entered with, `sig` the signal it leaves
StepWith(opcode, i, m) ==
    LET advanced == Advance(i)
        r == Eval(opcode, advanced, m)
    IN  [itp |-> r.itp, mem |-> r.mem,
         saw |-> ProgramCounter(advanced), sig |-> r.itp.instruction_result]

(***************************************************************************)
(* The loops' tests and results.                                           *)
(***************************************************************************)
\* mutant: the comparison is inverted
RunContinues_Inverted(i) == i.instruction_result # Continue

\* mutant: a normal stop does not end the loop
RunContinues_PastStop(i) == i.instruction_result \in {Continue, "Stop"}

\* mutant: a Return does not end the loop
RunContinues_PastReturn(i) == i.instruction_result \in {Continue, "Return"}

\* run: `while self.instruction_result == InstructionResult::Continue`
RunContinues(i) == i.instruction_result = Continue

\* mutant: run reports a plain stop whatever ended it
RunResult_AlwaysStop(i) == "Stop"

\* run's value once its condition fails: `self.instruction_result`
RunResult(i) == i.instruction_result

\* mutant: a normal stop does not end the inspected loop
InspectContinues_PastStop(i) == i.instruction_result \in {Continue, "Stop"}

\* run_inspect: `while self.instruction_result == InstructionResult::Continue`
InspectContinues(i) == i.instruction_result = Continue

\* mutant: run_inspect reports Continue at its end
InspectResult_Continue(i) == Continue

\* run_inspect's value once its condition fails: `self.instruction_result`
InspectResult(i) == i.instruction_result

\* mutant: only a fatal answer of a hook ends the loop
HookStops_FatalOnly(hookRet) == hookRet \in FatalSignals

\* `if ret != InstructionResult::Continue`
HookStops(hookRet) == hookRet # Continue

\* mutant: the loop returns the stored signal, not the hook's
HookResult_Stored(hookRet, i) == i.instruction_result

\* `return ret`
HookResult(hookRet, i) == hookRet

\* mutant: the post-step hook is handed Continue, whatever the dispatcher left
PostArg_Continue(i) == Continue

\* the signal handed to the post-step hook:
\* `host.step_end(self, self.instruction_result)`
PostArg(i) == i.instruction_result

(***************************************************************************)
(* Interpreter::return_value                                               *)
(***************************************************************************)
\* mutant: the sentinel is looked for in the range's end
IsSentinel_End(range) == range.end = USIZE_MAX

\* `self.return_range.start == usize::MAX`
IsSentinel(range) == range.start = USIZE_MAX

\* mutant: the length counts the end offset in
RangeLen_Inclusive(range) == range.end - range.start + 1

\* `self.return_range.end - self.return_range.start`
RangeLen(range) == range.end - range.start

(***************************************************************************)
(* The RefCell around SharedMemory: its borrow flag is 0 when the memory   *)
(* is not borrowed, n > 0 under n shared borrows, -1 under an exclusive    *)
(* one.  A borrow that cannot be granted panics.                           *)
(***************************************************************************)
CanBorrow(flag) == flag >= 0

Borrow(flag) == flag + 1

\* mutant: the shared borrow outlives the statement that took it
DropRef_Kept(flag) == flag

\* the temporary Ref is dropped at the end of the `let bytes = ...;` statement
DropRef(flag) == flag - 1

CanBorrowMut(flag) == flag = 0

BorrowMut(flag) == flag - 1

\* the temporary RefMut is dropped at the end of its statement
DropRefMut(flag) == flag + 1

VARIABLES
    itp,       \* the Interpreter's fields
    mem,       \* the SharedMemory instances, by handle
    pc,        \* where the driver / the loop stands
    calls,     \* driver calls made on this interpreter so far
    ret,       \* the value the last finished call returned
    trace,     \* history: the opcodes dispatched, with their fetch offsets
    hist,      \* history: bookkeeping about the calls made so far
    cell       \* the borrow flag of each SharedMemory's RefCell, by handle

vars == <<itp, mem, pc, calls, ret, trace, hist, cell>>

NoRet == [op |-> "none", sig |-> "none", bytes |-> <<>>]

NoFrame == [sig |-> "none", bytes |-> <<>>, trace |-> <<>>, done |-> FALSE]

\* no hook has answered other than Continue in the current call
NoSnap(args, m) ==
    [itp |-> New(args.contract, args.gas_limit, args.is_static, args.shared_memory),
     mem |-> m, nev |-> 0, ntr |-> 0]

HistInit(args, m) ==
    [ args      |-> args,     \* what Interpreter::new was given
      mem0      |-> m,        \* the Shared Memory instances at construction
      entry_sig |-> "none",   \* the stored signal when the current loop was entered
      nsteps    |-> 0,        \* opcodes the current call has dispatched
      late      |-> FALSE,    \* an opcode was dispatched with a terminal signal stored
      oob       |-> FALSE,    \* an opcode was fetched outside the bytecode
      hook      |-> "none",   \* the hook that answered other than Continue
      hook_ret  |-> "none",   \* the signal that hook answered
      hook_at   |-> 0,        \* opcodes dispatched by the call when it answered
      hook_snap |-> NoSnap(args, m),
                              \* the interpreter, the memories and the lengths
                              \* of the logs when that hook answered
      call      |-> "none",   \* the driver call in progress, or the last one
      events    |-> <<>>,     \* what the current call has done, in order
      entry_mem |-> m,        \* the Shared Memory instances when it was entered
      stored    |-> "none",   \* the stored signal when the last loop returned
      loop_ret  |-> "none",   \* the signal the last loop returned
      returned  |-> FALSE,    \* run or run_inspect has returned a signal
      after     |-> 0,        \* opcodes dispatched after that
      halted    |-> FALSE,    \* ... with a terminal signal stored
      afterHalt |-> 0,        \* opcodes dispatched after that
      bytes     |-> <<>>,     \* return_value's copy, before its free
      slices    |-> 0,        \* get_slice calls return_value has made
      rvlog     |-> <<>>,     \* the finished return_value calls
      saved     |-> NoFrame ] \* an earlier frame's outcome, for comparison

(***************************************************************************)
(* Init: the driver has opened the frame's region in the call tree's       *)
(* Shared Memory and constructed the interpreter.                          *)
(***************************************************************************)
InitMem(parent) ==
    [h \in Handles |-> IF h = TreeMemory THEN ShmNewContext(parent)
                       ELSE ShmNewContext(<<>>)]

Init ==
    \E contract \in Programs, gas_limit \in GasLimits, is_static \in BOOLEAN,
       parent \in ParentData :
        /\ itp = New(contract, gas_limit, is_static, TreeMemory)
        /\ mem = InitMem(parent)
        /\ pc = "idle"
        /\ calls = 0
        /\ ret = NoRet
        /\ trace = <<>>
        /\ cell = [h \in Handles |-> 0]
        /\ hist = HistInit([contract |-> contract, gas_limit |-> gas_limit,
                             is_static |-> is_static,
                             shared_memory |-> TreeMemory],
                            InitMem(parent))

\* the frame's Shared Memory, through the interpreter's handle
Shm == mem[itp.shared_memory]

(***************************************************************************)
(* One step of either loop: fetch, advance, dispatch.                      *)
(***************************************************************************)
Step ==
    \E opcode \in Fetch(itp) :
        LET r == StepWith(opcode, itp, Shm)
        IN  /\ itp' = r.itp
            /\ mem' = [mem EXCEPT ![itp.shared_memory] = r.mem]
            /\ trace' = Append(trace,
                  [at |-> ProgramCounter(itp), op |-> opcode, saw |-> r.saw,
                   next |-> ProgramCounter(r.itp), sig |-> r.sig,
                   top |-> IF itp.stack = <<>> THEN -1 ELSE StackTop(itp.stack, 0)])
            /\ UNCHANGED cell
            /\ hist' = [hist EXCEPT
                  !.events = Append(@, [ev |-> "step", sig |-> r.sig,
                                        pcr |-> ProgramCounter(itp),
                                        opr |-> {opcode}]),
                  !.nsteps = @ + 1,
                  !.late = @ \/ itp.instruction_result # Continue,
                  !.oob = @ \/ ~InAllocation(itp, itp.instruction_pointer),
                  !.after = IF hist.returned THEN @ + 1 ELSE @,
                  !.afterHalt = IF hist.halted THEN @ + 1 ELSE @]

Enter(loop) ==
    /\ pc = "idle"
    /\ calls < MaxCalls
    /\ calls' = calls + 1
    /\ pc' = loop
    /\ hist' = [hist EXCEPT !.entry_sig = itp.instruction_result,
                            !.nsteps = 0, !.hook = "none", !.hook_ret = "none",
                            !.hook_at = 0, !.call = loop, !.events = <<>>,
                            !.hook_snap = NoSnap(hist.args, hist.mem0),
                            !.entry_mem = mem]
    /\ UNCHANGED <<itp, mem, ret, trace, cell>>

\* a loop returns `signal` to the driver
Return(op, signal, h) ==
    /\ pc' = "idle"
    /\ ret' = [op |-> op, sig |-> signal, bytes |-> <<>>]
    /\ hist' = [h EXCEPT !.stored = itp.instruction_result,
                         !.loop_ret = signal,
                         !.returned = TRUE,
                         !.halted = @ \/ itp.instruction_result # Continue]
    /\ UNCHANGED <<itp, mem, calls, trace, cell>>

(***************************************************************************)
(* Interpreter::run                                                        *)
(***************************************************************************)
CallRun == Enter("run")

RunStep ==
    /\ pc = "run"
    /\ RunContinues(itp)
    /\ Step
    /\ UNCHANGED <<pc, calls, ret>>

RunReturn ==
    /\ pc = "run"
    /\ ~RunContinues(itp)
    /\ Return("run", RunResult(itp), hist)

(***************************************************************************)
(* Interpreter::run_inspect                                                *)
(***************************************************************************)
CallRunInspect == Enter("ri_loop")

RiLoop ==
    /\ pc = "ri_loop"
    /\ InspectContinues(itp)
    /\ pc' = "ri_pre"
    /\ UNCHANGED <<itp, mem, calls, ret, trace, hist, cell>>

RiReturn ==
    /\ pc = "ri_loop"
    /\ ~InspectContinues(itp)
    /\ Return("run_inspect", InspectResult(itp), hist)

\* the hook `which` answered `hookRet`
\* the hook `which` is called: it is handed the interpreter, whose
\* program_counter() and current_opcode() it reads
Called(which) ==
    Append(hist.events,
           [ev |-> which,
            sig |-> IF which = "post" THEN PostArg(itp) ELSE itp.instruction_result,
            pcr |-> ProgramCounter(itp), opr |-> CurrentOpcode(itp)])

Answered(which, hookRet) ==
    IF hookRet = Continue THEN [hist EXCEPT !.events = Called(which)]
    ELSE [hist EXCEPT !.events = Called(which),
                      !.hook = which, !.hook_ret = hookRet, !.hook_at = hist.nsteps,
                      !.hook_snap = [itp |-> itp, mem |-> mem,
                                     nev |-> Len(Called(which)),
                                     ntr |-> Len(trace)]]

\* what the loop does with a hook's answer: return it, or go on at `next`
OnAnswer(which, hookRet, next) ==
    IF HookStops(hookRet)
    THEN Return("run_inspect", HookResult(hookRet, itp), Answered(which, hookRet))
    ELSE /\ pc' = next
         /\ hist' = Answered(which, hookRet)
         /\ UNCHANGED <<itp, mem, calls, ret, trace, cell>>

\* host.step(self), the hook answering with a signal of `answers`
PreStepOf(answers) ==
    /\ pc = "ri_pre"
    /\ \E hookRet \in answers : OnAnswer("pre", hookRet, "ri_step")

RiPreStep == PreStepOf(HookSignals)

RiStep ==
    /\ pc = "ri_step"
    /\ Step
    /\ pc' = "ri_post"
    /\ UNCHANGED <<calls, ret>>

\* host.step_end(self, self.instruction_result)
PostStepOf(answers) ==
    /\ pc = "ri_post"
    /\ \E hookRet \in answers : OnAnswer("post", hookRet, "ri_loop")

RiPostStep == PostStepOf(HookSignals)

(***************************************************************************)
(* Interpreter::return_value                                               *)
(***************************************************************************)
CallReturnValue == Enter("rv_copy")

\* the copy cannot be taken: the subtraction underflows or the slice is
\* outside the frame's memory
CopyFails(i, m) ==
    /\ ~IsSentinel(i.return_range)
    /\ \/ RangeLen(i.return_range) < 0
       \/ ~ShmInBounds(m, i.return_range.start, RangeLen(i.return_range))

\* mutant: the slice is taken from the start of the frame's memory
CopyOut_FromZero(i, m) ==
    IF IsSentinel(i.return_range) THEN <<>>
    ELSE ShmGetSlice(m, 0, RangeLen(i.return_range))

CopyOut(i, m) ==
    IF IsSentinel(i.return_range) THEN <<>>
    ELSE ShmGetSlice(m, i.return_range.start, RangeLen(i.return_range))

\* mutant: the region is freed only when bytes were copied out of it
FreeContext_IfCopied(i, m) ==
    IF IsSentinel(i.return_range) THEN m ELSE ShmFreeContextMemory(m)

\* `self.shared_memory.borrow_mut().free_context_memory()`, on both branches
FreeContext(i, m) == ShmFreeContextMemory(m)

\* the shared borrow of the copy, taken on the non-sentinel branch only and
\* given back before the next statement
CellAfterCopy(i, flag) ==
    IF IsSentinel(i.return_range) THEN flag ELSE DropRef(Borrow(flag))

\* return_value cannot go on: the copy fails, or the RefCell refuses the
\* borrow the next statement asks for
RvPanics ==
    \/ /\ pc = "rv_copy"
       /\ \/ CopyFails(itp, Shm)
          \/ ~IsSentinel(itp.return_range) /\ ~CanBorrow(cell[itp.shared_memory])
    \/ /\ pc = "rv_free"
       /\ ~CanBorrowMut(cell[itp.shared_memory])

\* the finished (or failed) call, as rvlog keeps it
RvEntry(bytes, after, err, events) ==
    [bytes |-> bytes, mem |-> after, err |-> err,
     pre |-> hist.entry_mem[itp.shared_memory], range |-> itp.return_range,
     evs |-> [k \in 1 .. Len(events) |-> events[k].ev]]

RvCopy ==
    /\ pc = "rv_copy"
    /\ ~RvPanics
    /\ pc' = "rv_free"
    /\ cell' = [cell EXCEPT ![itp.shared_memory] = CellAfterCopy(itp, @)]
    /\ hist' = [hist EXCEPT !.bytes = CopyOut(itp, Shm),
                            !.events = Append(@, [ev |-> "copy"]),
                            !.slices = IF IsSentinel(itp.return_range) THEN @ ELSE @ + 1]
    /\ UNCHANGED <<itp, mem, calls, ret, trace>>

RvPanic ==
    /\ RvPanics
    /\ pc' = "panic"
    /\ hist' = [hist EXCEPT !.slices = IF pc = "rv_copy" THEN @ + 1 ELSE @,
                            !.rvlog =
                   Append(@, RvEntry(<<>>, Shm, TRUE, hist.events))]
    /\ UNCHANGED <<itp, mem, calls, ret, trace, cell>>

RvFree ==
    /\ pc = "rv_free"
    /\ ~RvPanics
    /\ LET freed == FreeContext(itp, Shm)
           events == Append(hist.events, [ev |-> "free"])
       IN  /\ mem' = [mem EXCEPT ![itp.shared_memory] = freed]
           /\ hist' = [hist EXCEPT !.events = events,
                          !.rvlog = Append(@, RvEntry(hist.bytes, freed, FALSE, events))]
    /\ cell' = [cell EXCEPT ![itp.shared_memory] = DropRefMut(BorrowMut(@))]
    /\ pc' = "idle"
    /\ ret' = [op |-> "return_value", sig |-> "none", bytes |-> hist.bytes]
    /\ UNCHANGED <<itp, calls, trace>>

Next ==
    \/ CallRun \/ RunStep \/ RunReturn
    \/ CallRunInspect \/ RiLoop \/ RiReturn \/ RiPreStep \/ RiStep \/ RiPostStep
    \/ CallReturnValue \/ RvCopy \/ RvPanic \/ RvFree

Spec == Init /\ [][Next]_vars

(***************************************************************************)
(* The plain loop alone, which keeps running once it is entered.           *)
(***************************************************************************)
NextRun == CallRun \/ RunStep \/ RunReturn

SpecRun ==
    Init /\ [][NextRun]_vars /\ WF_vars(RunStep) /\ WF_vars(RunReturn)

(***************************************************************************)
(* return_value on its own: a frame that has run, with any return_range    *)
(* the dispatcher can leave (the sentinel, or a range inside the frame's   *)
(* memory) and any contents of Shared Memory.                              *)
(***************************************************************************)
MemBytes == {0, 1}

FrameData == SeqsUpTo(MemBytes, MaxMem)

RangesOver(len) ==
    {[start |-> USIZE_MAX, end |-> e] : e \in (0 .. len) \cup {USIZE_MAX}}
      \cup {r \in [start : 0 .. len, end : 0 .. len] : r.start <= r.end}

InitRV ==
    \E parent \in ParentData, frame \in FrameData, is_static \in BOOLEAN :
    \E range \in RangesOver(Len(frame)) :
        LET m == [h \in Handles |->
                    IF h = TreeMemory
                    THEN [data |-> parent \o frame, base |-> Len(parent)]
                    ELSE ShmNewContext(<<>>)]
            args == [contract |-> Pad(<<>>), gas_limit |-> MaxGas,
                     is_static |-> is_static, shared_memory |-> TreeMemory]
        IN  /\ itp = [New(args.contract, args.gas_limit, args.is_static,
                          args.shared_memory)
                        EXCEPT !.return_range = range,
                               !.instruction_result = "Return"]
            /\ mem = m
            /\ pc = "idle"
            /\ calls = 0
            /\ ret = NoRet
            /\ trace = <<>>
            /\ cell = [h \in Handles |-> 0]
            /\ hist = HistInit(args, m)

NextRV == CallReturnValue \/ RvCopy \/ RvPanic \/ RvFree

SpecRV == InitRV /\ [][NextRV]_vars

(***************************************************************************)
(* The two loops on the same frame: the driver runs the frame with run and *)
(* takes its return value, constructs the interpreter again from the same  *)
(* contract, gas limit, flag and Shared Memory, and runs it with           *)
(* run_inspect under hooks that always answer Continue.                    *)
(***************************************************************************)
EqCallRun == ~hist.saved.done /\ calls = 0 /\ CallRun

EqCallRunInspect == hist.saved.done /\ calls = 0 /\ CallRunInspect

EqCallReturnValue == ret.op \in {"run", "run_inspect"} /\ CallReturnValue

EqReconstruct ==
    /\ pc = "idle"
    /\ ret.op = "return_value"
    /\ ~hist.saved.done
    /\ itp' = New(hist.args.contract, hist.args.gas_limit, hist.args.is_static,
                  hist.args.shared_memory)
    /\ mem' = hist.mem0
    /\ pc' = "idle"
    /\ calls' = 0
    /\ ret' = NoRet
    /\ trace' = <<>>
    /\ cell' = [h \in Handles |-> 0]
    /\ hist' = [HistInit(hist.args, hist.mem0) EXCEPT !.saved =
                   [sig |-> hist.loop_ret, bytes |-> ret.bytes,
                    trace |-> trace, done |-> TRUE]]

RiPreContinue == PreStepOf({Continue})

RiPostContinue == PostStepOf({Continue})

NextEq ==
    \/ EqCallRun \/ RunStep \/ RunReturn
    \/ EqCallReturnValue \/ RvCopy \/ RvFree
    \/ EqReconstruct
    \/ EqCallRunInspect \/ RiLoop \/ RiReturn
    \/ RiPreContinue \/ RiStep \/ RiPostContinue

SpecEq == Init /\ [][NextEq]_vars

(***************************************************************************)
(* Properties.                                                             *)
(***************************************************************************)
LoopOps == {"run", "run_inspect"}

\* a loop has returned and the driver has made no further call
JustReturned(op) == pc = "idle" /\ ret.op = op

IsPrefix(s, t) == Len(s) <= Len(t) /\ s = SubSeq(t, 1, Len(s))

\* C1: with both hooks always answering Continue, run_inspect dispatches the
\* same sequence of opcodes as run on the same program, gas limit and initial
\* state, ends with the same signal, and a following return_value() yields
\* the same bytes.
C1_RunInspectEqualsRun ==
    hist.saved.done =>
        /\ IsPrefix(trace, hist.saved.trace)
        /\ JustReturned("run_inspect") =>
              /\ trace = hist.saved.trace
              /\ ret.sig = hist.saved.sig
        /\ JustReturned("return_value") =>
              /\ trace = hist.saved.trace
              /\ hist.loop_ret = hist.saved.sig
              /\ ret.bytes = hist.saved.bytes

\* both frames ran a program that writes memory, jumps or not, and returns
\* bytes that are not all zero
C1_Witness ==
    /\ hist.saved.done
    /\ JustReturned("return_value")
    /\ hist.loop_ret = "Return"
    /\ Len(trace) >= 5
    /\ \E k \in 1 .. Len(ret.bytes) : ret.bytes[k] # 0

\* C2: run calls step exactly while the stored signal equals Continue: it
\* dispatches nothing when entered with a terminal signal, nothing once a
\* terminal signal is stored, and it returns the stored signal, which is
\* never Continue.
C2_RunStepsWhileContinue ==
    /\ ~hist.late
    /\ (pc = "run" /\ hist.entry_sig # Continue) => hist.nsteps = 0
    /\ JustReturned("run") =>
          /\ ret.sig = itp.instruction_result
          /\ ret.sig # Continue
          /\ hist.entry_sig # Continue => hist.nsteps = 0

\* run dispatched opcodes, the last of which set Return, and returned it
C2_Witness ==
    /\ JustReturned("run")
    /\ hist.nsteps >= 3
    /\ ret.sig = "Return"

\* C3: when a hook of run_inspect answers a signal other than Continue, the
\* loop stops at once (no opcode is dispatched after the answer) and returns
\* the hook's signal, whatever signal the dispatcher has stored.
C3_HookSignalReturned ==
    hist.hook # "none" =>
        /\ JustReturned("run_inspect")
        /\ ret.sig = hist.hook_ret
        /\ hist.nsteps = hist.hook_at

\* the post-step hook answered Stop right after the dispatcher stored a
\* fatal signal
C3_Witness ==
    /\ JustReturned("run_inspect")
    /\ hist.hook = "post"
    /\ ret.sig = "Stop"
    /\ itp.instruction_result \in FatalSignals

\* C4 as claimed: whenever run or run_inspect returns s, the stored signal
\* is not Continue and equals s, also when a hook stopped the loop.
C4_StoredIsReturned_Claimed ==
    \A op \in LoopOps :
        JustReturned(op) =>
            /\ itp.instruction_result # Continue
            /\ itp.instruction_result = ret.sig

\* C4, amended: whenever run returns s, or run_inspect returns s because its
\* loop condition failed, the stored signal is not Continue and equals s;
\* when a hook stopped run_inspect, the value returned is the hook's signal
\* and the stored signal is left as the dispatcher set it.
C4_StoredIsReturned ==
    \A op \in LoopOps :
        JustReturned(op) =>
            /\ itp.instruction_result = hist.stored
            /\ IF hist.hook = "none"
               THEN /\ itp.instruction_result # Continue
                    /\ itp.instruction_result = ret.sig
               ELSE ret.sig = hist.hook_ret

\* run_inspect returned by its loop condition, after dispatching
C4_Witness ==
    /\ JustReturned("run_inspect")
    /\ hist.hook = "none"
    /\ hist.nsteps >= 2
    /\ ret.sig = "InvalidJump"

\* C5 as claimed: once run or run_inspect has returned a signal, no further
\* opcode of the frame is dispatched and a stored terminal signal does not
\* go back to Continue, whatever calls follow.
C5_TerminalIsFinal_Claimed ==
    hist.returned =>
        /\ hist.after = 0
        /\ hist.stored # Continue => itp.instruction_result # Continue

\* C5, amended: once run or run_inspect has returned with a terminal signal
\* stored (run always; run_inspect unless a hook stopped it while the stored
\* signal was still Continue), the stored signal never goes back to Continue
\* and no further opcode is dispatched, whatever calls follow.
C5_TerminalIsFinal ==
    hist.halted =>
        /\ hist.afterHalt = 0
        /\ itp.instruction_result # Continue

\* a loop is entered again after the frame has halted
C5_Witness ==
    /\ hist.halted
    /\ pc \in {"run", "ri_loop"}
    /\ calls >= 2

\* C6: on a padded program every opcode fetch reads inside the bytecode and
\* the instruction pointer stays within [base, base + len].
C6_PointerInBytecode ==
    /\ ~hist.oob
    /\ itp.instruction_pointer >= BytecodePtr(itp.contract)
    /\ itp.instruction_pointer <= BytecodePtr(itp.contract) + CodeLen(itp)

\* the pointer stands one past the padding, after a jump was taken
C6_Witness ==
    /\ itp.instruction_pointer = BytecodePtr(itp.contract) + CodeLen(itp)
    /\ itp.instruction_result = "Stop"
    /\ \E k \in 1 .. Len(trace) : trace[k].op = "JUMP"

\* C7: run terminates on every padded program with a finite gas limit: a
\* run that has been entered eventually returns, with a signal that is not
\* Continue.
C7_RunTerminates ==
    (pc = "run") ~> (JustReturned("run") /\ ret.sig # Continue)

\* a program that jumps back forever is stopped by its gas limit
C7_Witness ==
    /\ JustReturned("run")
    /\ ret.sig = "OutOfGas"
    /\ hist.nsteps > CodeLen(itp)
    /\ \E k \in 1 .. Len(trace) : trace[k].op = "JUMP"

\* what Shared Memory holds of the parent frames, as handed to the frame
ParentRegion == ShmNewContext(SubSeq(hist.mem0[TreeMemory].data, 1,
                                     hist.mem0[TreeMemory].base))

SecondCallSafe ==
    /\ ~hist.rvlog[2].err
    /\ hist.rvlog[2].bytes = <<>>
    /\ hist.rvlog[2].mem = hist.rvlog[1].mem
    /\ hist.rvlog[2].mem = ParentRegion

\* C8 as claimed: for every return_range and memory state, a second
\* return_value() raises no error, yields an empty result and leaves Shared
\* Memory as the first call left it.
C8_SecondCallSafe_Claimed == Len(hist.rvlog) >= 2 => SecondCallSafe

\* C8, amended: calling return_value() twice in sequence is safe when
\* return_range is the empty sentinel or the default range 0..0: the second
\* call raises no error, yields an empty result, and its free leaves Shared
\* Memory as the first call left it, the parents' region untouched.
C8_SecondCallSafe ==
    ( /\ Len(hist.rvlog) >= 2
      /\ \/ itp.return_range.start = USIZE_MAX
         \/ itp.return_range = [start |-> 0, end |-> 0] )
    => SecondCallSafe

\* two calls on the range 0..0, the frame and its parents holding bytes
C8_Witness ==
    /\ Len(hist.rvlog) >= 2
    /\ itp.return_range = [start |-> 0, end |-> 0]
    /\ ShmLen(hist.mem0[TreeMemory]) > 0
    /\ hist.mem0[TreeMemory].base > 0

\* C9: when return_range.start is the sentinel, return_value() yields a
\* zero-length buffer whatever Shared Memory holds and whatever the range's
\* end is, and it takes no slice of Shared Memory.
C9_SentinelIsEmpty ==
    itp.return_range.start = USIZE_MAX =>
        /\ hist.slices = 0
        /\ pc # "panic"
        /\ pc = "rv_free" => hist.bytes = <<>>
        /\ \A k \in 1 .. Len(hist.rvlog) :
              ~hist.rvlog[k].err /\ hist.rvlog[k].bytes = <<>>
        /\ JustReturned("return_value") => ret.bytes = <<>>

\* return_value has returned for a sentinel range whose end is 0, the
\* frame's memory holding bytes
C9_Witness ==
    /\ JustReturned("return_value")
    /\ itp.return_range = [start |-> USIZE_MAX, end |-> 0]
    /\ ShmLen(hist.mem0[TreeMemory]) > 0

\* C10: a freshly constructed interpreter has its program counter at 0, the
\* signal Continue, all of gas_limit remaining, an empty stack, an empty
\* return-data buffer, the is_static flag and the Shared Memory handle it was
\* given; construction does not fail and leaves Shared Memory alone.
C10_FreshInterpreter ==
    calls = 0 =>
        /\ ProgramCounter(itp) = 0
        /\ itp.instruction_result = Continue
        /\ itp.gas.remaining = hist.args.gas_limit
        /\ itp.gas.limit = hist.args.gas_limit
        /\ itp.stack = <<>>
        /\ itp.return_data_buffer = <<>>
        /\ itp.is_static = hist.args.is_static
        /\ itp.shared_memory = hist.args.shared_memory
        /\ itp.contract = hist.args.contract
        /\ mem = hist.mem0
        /\ pc = "idle"

C10_Witness ==
    /\ calls = 0
    /\ hist.args.gas_limit = MaxGas
    /\ hist.args.is_static
    /\ ShmLen(Shm) = 0 /\ Len(Shm.data) > 0

\* the frame's program begins with STOP and was given a positive gas limit
StopProgram == hist.args.contract[1] = "STOP" /\ hist.args.gas_limit > 0

\* C11: a program made of the single opcode STOP (and its padding), run on a
\* fresh interpreter with a positive gas limit, ends after exactly one step
\* with the normal-stop signal, and return_value() then yields empty return
\* data.
C11_StopProgram ==
    StopProgram =>
        /\ pc # "panic"
        /\ Len(trace) <= 1
        /\ JustReturned("run") =>
              /\ ret.sig = "Stop"
              /\ itp.instruction_result = "Stop"
              /\ trace = <<[at |-> 0, op |-> "STOP", saw |-> 1, next |-> 1,
                            sig |-> "Stop", top |-> -1]>>
        /\ JustReturned("return_value") => ret.bytes = <<>>

\* run has stopped the program after one step and return_value has returned
C11_Witness ==
    /\ StopProgram
    /\ hist.args.contract = Pad(<<"STOP">>)
    /\ JustReturned("return_value")
    /\ hist.loop_ret = "Stop"
    /\ hist.nsteps = 0
    /\ Len(trace) = 1
    /\ calls = 2

\* C12: step fetches the opcode under the pointer, advances the pointer by
\* one byte, and only then dispatches: the dispatcher is entered with the
\* program counter at the fetch offset plus one, an opcode that does not set
\* the pointer leaves it there, and the target a jump writes is what the
\* pointer holds after the step.
C12_FetchAdvanceDispatch ==
    \A k \in 1 .. Len(trace) :
        LET e == trace[k]
        IN  /\ e.saw = e.at + 1
            /\ e.op # "JUMP" => e.next = e.at + 1
            /\ e.op = "JUMP" =>
                  /\ e.next \in {e.at + 1, e.top}
                  /\ e.sig = Continue =>
                        /\ e.next = e.top
                        /\ ByteAt(itp, e.top) = "JUMPDEST"

\* a jump backwards was taken: the pointer holds its target, not the byte
\* after the jump
C12_Witness ==
    \E k \in 1 .. Len(trace) :
        /\ trace[k].op = "JUMP"
        /\ trace[k].sig = Continue
        /\ trace[k].next = trace[k].top
        /\ trace[k].top < trace[k].at

\* C13: in run_inspect, when the pre-step hook answers other than Continue,
\* the opcode under the pointer is neither fetched nor dispatched and the
\* post-step hook is not called: the loop returns at once, and the
\* interpreter (pointer, stack, gas, signal) and Shared Memory are as they
\* were when the hook answered.
C13_PreHookStopsBeforeFetch ==
    hist.hook = "pre" =>
        /\ JustReturned("run_inspect")
        /\ itp = hist.hook_snap.itp
        /\ mem = hist.hook_snap.mem
        /\ Len(trace) = hist.hook_snap.ntr
        /\ Len(hist.events) = hist.hook_snap.nev
        /\ hist.events[Len(hist.events)].ev = "pre"
        /\ hist.nsteps = hist.hook_at

\* the pre-step hook has stopped the loop before its second opcode, the
\* first having changed the stack
C13_Witness ==
    /\ hist.hook = "pre"
    /\ JustReturned("run_inspect")
    /\ Len(trace) = 1
    /\ itp.stack # <<>>
    /\ InBytecode(itp, ProgramCounter(itp))

\* the place of the k-th event of a run_inspect call in its round
RoundEvent(k) == CASE k % 3 = 1 -> "pre" [] k % 3 = 2 -> "step" [] OTHER -> "post"

\* C14: in run_inspect every dispatched opcode is wrapped, in this order, by
\* one pre-step call, its dispatch and one post-step call; the post-step hook
\* is handed the signal the dispatcher has just produced, also on the step
\* that makes the signal terminal; the pre-step hook is never called with a
\* terminal signal stored, and no hook is called after the post-step call of
\* the step that made the signal terminal.
C14_HooksWrapDispatch ==
    hist.call = "ri_loop" =>
        LET ev == hist.events
        IN  /\ \A k \in 1 .. Len(ev) :
                  /\ ev[k].ev = RoundEvent(k)
                  /\ ev[k].ev = "pre" => ev[k].sig = Continue
                  /\ ev[k].ev = "post" =>
                        /\ ev[k].sig = ev[k - 1].sig
                        /\ ev[k].sig # Continue => k = Len(ev)
            /\ hist.entry_sig # Continue => ev = <<>>
            /\ pc = "ri_post" => Len(ev) % 3 = 2
            /\ pc = "ri_step" => Len(ev) % 3 = 1
            /\ pc \in {"ri_loop", "ri_pre"} => Len(ev) % 3 = 0
            /\ pc = "idle" => Len(ev) % 3 = (IF hist.hook = "pre" THEN 1 ELSE 0)

\* run_inspect has returned after two rounds, the second of which made the
\* signal terminal and handed it to the post-step hook
C14_Witness ==
    /\ hist.call = "ri_loop"
    /\ JustReturned("run_inspect")
    /\ Len(hist.events) = 6
    /\ hist.events[6].ev = "post"
    /\ hist.events[6].sig \in FatalSignals
    /\ hist.hook = "none"

\* C15: run, run_inspect and step never write the stored halting signal:
\* a transition that dispatches an opcode leaves stored exactly the signal
\* the dispatcher produced, and every other transition of the loops, of the
\* hooks' handling and of return_value leaves the stored signal as it was.
C15_LoopNeverWritesSignal ==
    [][IF Len(trace') > Len(trace)
       THEN itp'.instruction_result = trace'[Len(trace')].sig
       ELSE itp'.instruction_result = itp.instruction_result]_vars

\* the dispatcher has made the signal terminal inside run_inspect, and the
\* post-step hook is about to be called
C15_Witness ==
    /\ pc = "ri_post"
    /\ hist.entry_sig = Continue
    /\ itp.instruction_result \in FatalSignals
    /\ trace[Len(trace)].sig = itp.instruction_result

\* the bytes of `range` in the frame's region of the memory `m`
BytesOf(m, range) ==
    [k \in 1 .. (range.end - range.start) |-> m.data[m.base + range.start + k]]

RangeInside(m, range) == range.start <= range.end /\ range.end <= ShmLen(m)

\* C17: when return_range is not the sentinel and lies inside the frame's
\* memory with start <= end, return_value() returns a buffer of exactly
\* end - start bytes whose i-th byte is the byte Shared Memory held at offset
\* start + i before the free; the default range 0..0 gives an empty buffer.
C17_CopyOfRange ==
    \A k \in 1 .. Len(hist.rvlog) :
        LET e == hist.rvlog[k]
        IN  (e.range.start # USIZE_MAX /\ RangeInside(e.pre, e.range)) =>
                /\ ~e.err
                /\ Len(e.bytes) = e.range.end - e.range.start
                /\ \A i \in 0 .. (Len(e.bytes) - 1) :
                      e.bytes[i + 1] = e.pre.data[e.pre.base + e.range.start + i + 1]
                /\ e.range = RangeDefault => e.bytes = <<>>
                /\ (k = Len(hist.rvlog) /\ JustReturned("return_value")) =>
                      ret.bytes = e.bytes

\* return_value has copied the second byte of a frame whose first byte
\* differs from it, above the parents' bytes
C17_Witness ==
    /\ JustReturned("return_value")
    /\ itp.return_range = [start |-> 1, end |-> 2]
    /\ hist.rvlog[1].pre.base > 0
    /\ ShmGetSlice(hist.rvlog[1].pre, 0, 2) = <<0, 1>>
    /\ ret.bytes = <<1>>

\* C18, as the specification states it: whenever the signal run or
\* run_inspect returned is fatal, return_value() yields no bytes.
C18_FatalIsEmpty_Claimed ==
    (JustReturned("return_value") /\ hist.loop_ret \in FatalSignals) =>
        ret.bytes = <<>>

\* C18: whenever the stored halting signal is fatal, as it is when run
\* returns a fatal signal and when run_inspect returns one that no hook has
\* substituted, the dispatcher has set no return_range and return_value()
\* yields zero-length return data without failing.
C18_FatalIsEmpty ==
    /\ (JustReturned("run") /\ ret.sig \in FatalSignals) =>
          itp.instruction_result = ret.sig
    /\ (JustReturned("run_inspect") /\ ret.sig \in FatalSignals
          /\ hist.hook = "none") => itp.instruction_result = ret.sig
    /\ itp.instruction_result \in FatalSignals =>
          /\ pc # "panic"
          /\ itp.return_range = [start |-> 0, end |-> 0]
          /\ pc = "rv_free" => hist.bytes = <<>>
          /\ JustReturned("return_value") => ret.bytes = <<>>

\* run has ended a frame with a fatal signal after more than one opcode and
\* return_value has returned
C18_Witness ==
    /\ JustReturned("return_value")
    /\ itp.instruction_result \in FatalSignals
    /\ hist.loop_ret = itp.instruction_result
    /\ hist.stored = itp.instruction_result
    /\ Len(trace) >= 2

\* C19: the interpreter's own accesses to Shared Memory never overlap: the
\* shared borrow of return_value()'s copy is given back before the exclusive
\* borrow of the free is asked for, which is therefore granted; no borrow is
\* held when return_value() returns; and none is held while run, run_inspect
\* or step call the dispatcher or a hook, so that a nested frame can borrow
\* the memory.
C19_NoOverlappingBorrows ==
    /\ \A h \in Handles : cell[h] = 0
    /\ pc = "rv_free" => CanBorrowMut(cell[itp.shared_memory])
    /\ pc \in {"run", "ri_pre", "ri_step", "ri_post"} =>
          CanBorrowMut(cell[itp.shared_memory])
    /\ \A k \in 1 .. Len(hist.rvlog) :
          hist.rvlog[k].err => hist.rvlog[k].evs = <<>>

\* return_value stands between its copy, taken from a range that is not the
\* sentinel, and its free, in a frame that has dispatched opcodes
C19_Witness ==
    /\ pc = "rv_free"
    /\ itp.return_range.start # USIZE_MAX
    /\ hist.bytes # <<>>
    /\ hist.slices >= 1
    /\ Len(trace) > 0
    /\ cell[itp.shared_memory] = 0

\* C20, as the specification states it: in every reachable state
\* current_opcode() is the bytecode byte at the offset program_counter()
\* gives.
C20_Diagnostics_Claimed ==
    /\ InBytecode(itp, ProgramCounter(itp))
    /\ CurrentOpcode(itp) = {ByteAt(itp, ProgramCounter(itp))}

\* C20: program_counter() is the zero-based offset of the instruction
\* pointer from the start of the bytecode, between 0 and the bytecode's
\* length; while that offset is below the length, current_opcode() is the
\* bytecode byte at it, the byte the next step dispatches; reading them
\* changes nothing: what a hook has read is what the step after it fetches,
\* and the interpreter and Shared Memory are afterwards what the hook was
\* handed.
C20_Diagnostics ==
    /\ itp.instruction_pointer = BytecodePtr(itp.contract) + ProgramCounter(itp)
    /\ ProgramCounter(itp) \in 0 .. CodeLen(itp)
    /\ calls = 0 => ProgramCounter(itp) = 0
    /\ ProgramCounter(itp) < CodeLen(itp) =>
          CurrentOpcode(itp) = {itp.contract[ProgramCounter(itp) + 1]}
    /\ \A k \in 1 .. Len(trace) : trace[k].op = itp.contract[trace[k].at + 1]
    /\ hist.call = "ri_loop" =>
          \A k \in 1 .. Len(hist.events) :
              LET e == hist.events[k]
              IN  /\ e.ev = "pre" => e.opr = {itp.contract[e.pcr + 1]}
                  /\ e.ev = "step" =>
                        /\ e.pcr = hist.events[k - 1].pcr
                        /\ e.opr = hist.events[k - 1].opr
                  /\ (e.ev = "post" /\ e.pcr < CodeLen(itp)) =>
                        e.opr = {itp.contract[e.pcr + 1]}
    /\ (hist.hook # "none" /\ pc = "idle") =>
          itp = hist.hook_snap.itp /\ mem = hist.hook_snap.mem

\* the pre-step hook has read the diagnostics at the jump of a program that
\* has jumped back once, and the step it precedes is about to fetch
C20_Witness ==
    /\ pc = "ri_step"
    /\ Len(hist.events) >= 4
    /\ hist.events[Len(hist.events)].ev = "pre"
    /\ hist.events[Len(hist.events)].pcr = ProgramCounter(itp)
    /\ hist.events[Len(hist.events)].opr = {"JUMP"}
    /\ \E k \in 1 .. Len(trace) : trace[k].op = "JUMP" /\ trace[k].sig = Continue

=============================================================================
